---- MODULE Spec2Model ----
(***************************************************************************)
(* Model of the task-list screen of src/app/(tabs)/index.tsx (HomeScreen). *)
(*                                                                         *)
(* State: the React state of HomeScreen (tasks, text, filter, editingId,   *)
(* editingText), the AsyncStorage item under STORAGE_KEY, the startup      *)
(* getItem in flight, and the setItem calls in flight.  Each event handler *)
(* is one action; the save effect of lines 56-58, which React runs after   *)
(* every render in which `tasks` is a new array, is part of every action   *)
(* that calls setTasks.                                                    *)
(*                                                                         *)
(* Strings are sequences of one-character strings.  A task id is the       *)
(* number Date.now() + Math.random() before toString (toString is          *)
(* injective on doubles, so equal ids are equal numbers).                  *)
(***************************************************************************)
EXTENDS Integers, Sequences, FiniteSets, TLC

\* ---------------------------------------------------------------- bounds
MaxTasks == 2        \* longest task list
MaxInflight == 1     \* setItem calls in flight at once

\* What the user types into a TextInput: nothing, blanks, a bare title, a
\* title with blanks on both sides.
Strings == { <<>>, <<" ">>, <<"a">>, <<" ", "b", " ">> }
Filters == {"all", "active", "completed"}

\* (Date.now() + Math.random()).toString(): Date.now() is the wall clock in
\* milliseconds, which two calls can read alike, and the sum is rounded to
\* one of the 4096 doubles of that millisecond.  Nothing compares the new id
\* with the ids in the list, so the id is any of the values the clock and
\* the generator can give.
ClockValues == {0}
RandomSums == {0, 1}
Ids == {c + r : c \in ClockValues, r \in RandomSums}
\* The id of a task saved by an earlier session, when the clock was behind.
OldIds == {-1}
AllIds == Ids \cup OldIds
NoId == -2           \* editingId = null

Task(i, t, c) == [id |-> i, title |-> t, completed |-> c]

\* ------------------------------------------------------- String.trim()
RECURSIVE TrimStart(_)
TrimStart(s) ==
  IF s = <<>> THEN s
  ELSE IF Head(s) = " " THEN TrimStart(Tail(s)) ELSE s

RECURSIVE TrimEnd(_)
TrimEnd(s) ==
  IF s = <<>> THEN s
  ELSE IF s[Len(s)] = " " THEN TrimEnd(SubSeq(s, 1, Len(s) - 1)) ELSE s

\* trim() left out: the string as typed.
TrimNone(s) == s

Trim(s) == TrimEnd(TrimStart(s))

\* ------------------------------------- JSON.stringify / JSON.parse
\* A serialized value is a sequence of tokens.  Punctuation tokens carry
\* only a kind; member tokens carry the member's name as kind and its value.
Tk(k) == [k |-> k]
Member(k, v) == [k |-> k, v |-> v]

RecordTokens(t) ==
  << Tk("{"), Member("id", t.id), Member("title", t.title),
     Member("completed", t.completed), Tk("}") >>

RECURSIVE RecordsTokens(_)
RecordsTokens(ts) ==
  IF ts = <<>> THEN <<>>
  ELSE RecordTokens(Head(ts)) \o RecordsTokens(Tail(ts))

Stringify(ts) == <<Tk("[")>> \o RecordsTokens(ts) \o <<Tk("]")>>

IsRecordAt(toks) ==
  /\ Len(toks) >= 5
  /\ toks[1] = Tk("{")
  /\ toks[2].k = "id"
  /\ toks[3].k = "title"
  /\ toks[4].k = "completed"
  /\ toks[5] = Tk("}")

RECURSIVE WellFormedRecords(_)
WellFormedRecords(toks) ==
  \/ toks = <<>>
  \/ /\ IsRecordAt(toks)
     /\ WellFormedRecords(SubSeq(toks, 6, Len(toks)))

RECURSIVE ParseRecords(_)
ParseRecords(toks) ==
  IF toks = <<>> THEN <<>>
  ELSE <<Task(toks[2].v, toks[3].v, toks[4].v)>>
         \o ParseRecords(SubSeq(toks, 6, Len(toks)))

IsArrayText(raw) ==
  /\ Len(raw) >= 2
  /\ raw[1] = Tk("[")
  /\ raw[Len(raw)] = Tk("]")
  /\ WellFormedRecords(SubSeq(raw, 2, Len(raw) - 1))

IsObjectText(raw) == raw = <<Tk("{"), Tk("}")>>

\* JSON.parse(raw): throws on text that is not JSON; otherwise returns the
\* value, which is an array of records or the object {}.
Parse(raw) ==
  IF IsArrayText(raw)
    THEN [threw |-> FALSE, isArray |-> TRUE,
          value |-> ParseRecords(SubSeq(raw, 2, Len(raw) - 1))]
  ELSE IF IsObjectText(raw)
    THEN [threw |-> FALSE, isArray |-> FALSE, value |-> <<>>]
  ELSE [threw |-> TRUE, isArray |-> FALSE, value |-> <<>>]

\* ---------------------------------------------------- AsyncStorage item
NoItem == [present |-> FALSE, value |-> <<>>]
Item(v) == [present |-> TRUE, value |-> v]

\* `if (raw)`: null and the empty string are falsy.
Truthy(raw) == raw.present /\ raw.value # <<>>

EmptyText == <<>>
NonJsonText == <<Tk("[")>>
ObjectText == <<Tk("{"), Tk("}")>>

\* What the item can hold at launch: nothing, the empty string, text that
\* is not JSON, JSON that is no array, a list saved earlier, and a list of
\* well-formed records one of which has a blank title.
StoredLists ==
  { <<Task(-1, <<"a">>, TRUE)>>,
    <<Task(-1, <<" ">>, FALSE)>> }

InitialStorage ==
  {NoItem, Item(EmptyText), Item(NonJsonText), Item(ObjectText)}
    \cup {Item(Stringify(l)) : l \in StoredLists}

\* ----------------------------------------------------------------- state
VARIABLES
  tasks,        \* useState<Task[]>: the list, newest first
  text,         \* useState(''): the add input
  filter,       \* useState<Filter>('all')
  editingId,    \* useState<string | null>(null)
  editingText,  \* useState('')
  storage,      \* the AsyncStorage item under STORAGE_KEY
  loadPc,       \* the startup getItem: "reading" or "done"
  writes,       \* payloads of the setItem calls in flight, in issue order
  crashed       \* a render threw: the component tree is unmounted

vars == << tasks, text, filter, editingId, editingText, storage,
           loadPc, writes, crashed >>

\* After the first render and its effects: the state hooks hold their
\* initial values, getItem (line 44) and setItem of "[]" (line 57) are in
\* flight.
Init ==
  /\ tasks = <<>>
  /\ text = <<>>
  /\ filter = "all"
  /\ editingId = NoId
  /\ editingText = <<>>
  /\ storage \in InitialStorage
  /\ loadPc = "reading"
  /\ writes = <<Stringify(<<>>)>>
  /\ crashed = FALSE

\* The handlers exist only while the tree is mounted.
Mounted == ~crashed

\* setTasks(next) followed by the save effect of lines 56-58.
SetTasks(next) ==
  /\ tasks' = next
  /\ writes' = Append(writes, Stringify(next))

\* ------------------------------------------------------------- handlers
SetText(s) ==
  /\ Mounted
  /\ text' = s
  /\ UNCHANGED << tasks, filter, editingId, editingText, storage,
                  loadPc, writes, crashed >>

NewTask(id, title) == Task(id, title, FALSE)

\* [...prev, newTask] in place of [newTask, ...prev].
PrependedAtEnd(newTask, prev) == Append(prev, newTask)

Prepended(newTask, prev) == <<newTask>> \o prev

AddTask ==
  /\ Mounted
  /\ LET title == Trim(text) IN
       IF title = <<>>
         THEN UNCHANGED vars
         ELSE /\ \E id \in Ids :
                   SetTasks(Prepended(NewTask(id, title), tasks))
              /\ text' = <<>>
              /\ UNCHANGED << filter, editingId, editingText, storage,
                              loadPc, crashed >>

\* Toggling that also moves the completed tasks behind the active ones.
ToggledAndSunk(ts, id) ==
  LET flipped == [i \in 1..Len(ts) |->
                    IF ts[i].id = id
                      THEN [ts[i] EXCEPT !.completed = ~ts[i].completed]
                      ELSE ts[i]]
      IsActive(t) == ~t.completed
      IsDone(t) == t.completed
  IN SelectSeq(flipped, IsActive) \o SelectSeq(flipped, IsDone)

Toggled(ts, id) ==
  [i \in 1..Len(ts) |->
     IF ts[i].id = id THEN [ts[i] EXCEPT !.completed = ~ts[i].completed]
     ELSE ts[i]]

ToggleTask(id) ==
  /\ Mounted
  /\ SetTasks(Toggled(tasks, id))
  /\ UNCHANGED << text, filter, editingId, editingText, storage,
                  loadPc, crashed >>

RECURSIVE Without(_, _)
Without(ts, id) ==
  IF ts = <<>> THEN <<>>
  ELSE IF Head(ts).id # id THEN <<Head(ts)>> \o Without(Tail(ts), id)
  ELSE Without(Tail(ts), id)

DeleteTask(id) ==
  /\ Mounted
  /\ SetTasks(Without(tasks, id))
  /\ UNCHANGED << text, filter, editingId, editingText, storage,
                  loadPc, crashed >>

\* Opening a session that keeps the draft of the session it replaces.
StartEditingKeepsDraft(task) ==
  /\ Mounted
  /\ editingId' = task.id
  /\ editingText' = IF editingId = NoId THEN task.title ELSE editingText
  /\ UNCHANGED << tasks, text, filter, storage, loadPc, writes,
                  crashed >>

StartEditing(task) ==
  /\ Mounted
  /\ editingId' = task.id
  /\ editingText' = task.title
  /\ UNCHANGED << tasks, text, filter, storage, loadPc, writes,
                  crashed >>

SetEditingText(s) ==
  /\ Mounted
  /\ editingText' = s
  /\ UNCHANGED << tasks, text, filter, editingId, storage, loadPc,
                  writes, crashed >>

\* Retitling that puts the task back when its id is no longer in the list.
RetitledOrCreated(ts, id, newTitle) ==
  IF \E i \in 1..Len(ts) : ts[i].id = id
    THEN [i \in 1..Len(ts) |->
            IF ts[i].id = id THEN [ts[i] EXCEPT !.title = newTitle]
            ELSE ts[i]]
    ELSE Append(ts, Task(id, newTitle, FALSE))

Retitled(ts, id, newTitle) ==
  [i \in 1..Len(ts) |->
     IF ts[i].id = id THEN [ts[i] EXCEPT !.title = newTitle] ELSE ts[i]]

CommitEditing ==
  /\ Mounted
  /\ IF editingId = NoId
       THEN UNCHANGED vars
       ELSE LET newTitle == Trim(editingText) IN
         IF newTitle = <<>>
           THEN /\ editingId' = NoId
                /\ editingText' = <<>>
                /\ UNCHANGED << tasks, text, filter, storage, loadPc,
                                writes, crashed >>
           ELSE /\ SetTasks(Retitled(tasks, editingId, newTitle))
                /\ editingId' = NoId
                /\ editingText' = <<>>
                /\ UNCHANGED << text, filter, storage, loadPc,
                                crashed >>

\* Cancelling that saves the list again.
CancelEditingSaves ==
  /\ Mounted
  /\ SetTasks(tasks)
  /\ editingId' = NoId
  /\ editingText' = <<>>
  /\ UNCHANGED << text, filter, storage, loadPc, crashed >>

CancelEditing ==
  /\ Mounted
  /\ editingId' = NoId
  /\ editingText' = <<>>
  /\ UNCHANGED << tasks, text, filter, storage, loadPc, writes,
                  crashed >>

SetFilter(f) ==
  /\ Mounted
  /\ filter' = f
  /\ UNCHANGED << tasks, text, editingId, editingText, storage,
                  loadPc, writes, crashed >>

\* ------------------------------------------------------- derived values
RECURSIVE Keep(_, _)
Keep(ts, c) ==
  IF ts = <<>> THEN <<>>
  ELSE IF Head(ts).completed = c THEN <<Head(ts)>> \o Keep(Tail(ts), c)
  ELSE Keep(Tail(ts), c)

\* The two filter predicates exchanged.
FilteredSwapped(f, ts) ==
  CASE f = "active" -> Keep(ts, TRUE)
    [] f = "completed" -> Keep(ts, FALSE)
    [] OTHER -> ts

Filtered(f, ts) ==
  CASE f = "active" -> Keep(ts, FALSE)
    [] f = "completed" -> Keep(ts, TRUE)
    [] OTHER -> ts

filteredTasks == Filtered(filter, tasks)

\* The counters of lines 128-129, over `tasks` itself.
total == Len(tasks)

\* The completed counter taken over the visible tasks.
completedVisible == Len(Keep(filteredTasks, TRUE))

completed == Len(Keep(tasks, TRUE))

\* --------------------------------------------------------- load effect
\* getItem resolves with the item as it is in storage at that moment; the
\* rest of the async function runs in the same turn.
LoadResolve ==
  /\ loadPc = "reading"
  /\ loadPc' = "done"
  /\ LET raw == storage
         parsed == Parse(raw.value) IN
       IF ~Truthy(raw) \/ parsed.threw \/ ~Mounted
         THEN UNCHANGED << tasks, writes, crashed >>
       ELSE IF ~parsed.isArray
         \* setTasks(parsed) with a value that has no filter method: the
         \* next render throws at line 129 and no effect runs.
         THEN /\ crashed' = TRUE
              /\ UNCHANGED << tasks, writes >>
       ELSE /\ SetTasks(parsed.value)
            /\ UNCHANGED crashed
  /\ UNCHANGED << text, filter, editingId, editingText, storage >>

\* getItem rejects: the catch of lines 49-51.
LoadReject ==
  /\ loadPc = "reading"
  /\ loadPc' = "done"
  /\ UNCHANGED << tasks, text, filter, editingId, editingText,
                  storage, writes, crashed >>

\* --------------------------------------------------------- save effect
RemoveAt(s, i) == SubSeq(s, 1, i - 1) \o SubSeq(s, i + 1, Len(s))

\* One setItem in flight lands.  The calls are neither awaited nor chained,
\* so any of them may land next.
WriteResolve(i) ==
  /\ storage' = Item(writes[i])
  /\ writes' = RemoveAt(writes, i)
  /\ UNCHANGED << tasks, text, filter, editingId, editingText,
                  loadPc, crashed >>

\* Tasks a row may still hold when the list has changed under it.
StaleTasks == {Task(i, <<"a">>, FALSE) : i \in Ids}
Range(s) == {s[i] : i \in 1..Len(s)}

\* ------------------------------------------------------------ the system
\* The bounds of the model: a handler that would issue another setItem
\* waits while `cap` are in flight, and add waits while the list is full.
Throttled(cap) == Len(writes) < cap
Room == Len(tasks) < MaxTasks

\* A user event: any handler, with any argument.
UserEvent(cap) ==
  \/ \E s \in Strings : SetText(s)
  \/ Room /\ Throttled(cap) /\ AddTask
  \/ \E id \in AllIds : Throttled(cap) /\ ToggleTask(id)
  \/ \E id \in AllIds : Throttled(cap) /\ DeleteTask(id)
  \/ \E task \in Range(tasks) \cup StaleTasks : StartEditing(task)
  \/ \E s \in Strings : SetEditingText(s)
  \/ Throttled(cap) /\ CommitEditing
  \/ CancelEditing
  \/ \E f \in Filters : SetFilter(f)

\* The whole screen.  A setItem that rejects (.catch(() => {}), line 57)
\* leaves the item as it was, which is what a setItem still in flight
\* leaves behind, and no handler reads the item: a rejection adds no
\* behaviour of the screen, and the setItem calls of the model all land.
Next ==
  \/ UserEvent(MaxInflight)
  \/ LoadResolve
  \/ LoadReject
  \/ \E i \in 1..Len(writes) : WriteResolve(i)

Spec == Init /\ [][Next]_vars

\* ---------------------------------------------------- an untouched launch
\* The screen launched over a list saved by an earlier session and left
\* alone: the getItem of line 44 and the setItem calls of line 57 are the
\* only things that happen, the getItem succeeds.
LaunchTasks ==
  {Task(i, t, c) : i \in AllIds, t \in {<<"a">>, <<"b">>}, c \in BOOLEAN}

LaunchLists ==
  {l \in UNION {[1..n -> LaunchTasks] : n \in 1..MaxTasks} :
     \A i, j \in 1..Len(l) : i # j => l[i].id # l[j].id}

InitLaunch ==
  /\ tasks = <<>>
  /\ text = <<>>
  /\ filter = "all"
  /\ editingId = NoId
  /\ editingText = <<>>
  /\ storage \in {Item(Stringify(l)) : l \in LaunchLists}
  /\ loadPc = "reading"
  /\ writes = <<Stringify(<<>>)>>
  /\ crashed = FALSE

NextLaunch ==
  \/ LoadResolve
  \/ \E i \in 1..Len(writes) : WriteResolve(i)

SpecLaunch == InitLaunch /\ [][NextLaunch]_vars

\* ================================================================ claims
\* What the claims mean by a blank string and by trim(s), stated without
\* the operators the handlers use.
IsBlank(s) == \A i \in 1..Len(s) : s[i] = " "

IsTrimOf(t, s) ==
  /\ \E i \in 1..(Len(s) + 1), j \in 0..Len(s) :
       /\ t = SubSeq(s, i, j)
       /\ \A k \in 1..(i - 1) : s[k] = " "
       /\ \A k \in (j + 1)..Len(s) : s[k] = " "
  /\ t # <<>> => t[1] # " " /\ t[Len(t)] # " "

\* C1: an add whose input is not blank makes the list one longer, puts a
\* task with title trim(input) and completed = false at its head, and keeps
\* every task that was there, in order, behind it.
C1_AddPrepends ==
  [][ ~IsBlank(text) /\ AddTask =>
        /\ Len(tasks') = Len(tasks) + 1
        /\ IsTrimOf(tasks'[1].title, text)
        /\ tasks'[1].completed = FALSE
        /\ Tail(tasks') = tasks ]_vars

\* Before the load has resolved the list holds only what add put there:
\* the typed " b " is at the head as "b", the older task behind it.
C1_Added ==
  /\ loadPc = "reading"
  /\ Len(tasks) = 2
  /\ tasks[1] = Task(1, <<"b">>, FALSE)
  /\ tasks[2].title = <<"a">>
  /\ text = <<>>

\* C2: an add whose input is empty or blank changes neither the list nor
\* what is being saved.
C2_BlankAddIsNoOp ==
  [][ IsBlank(text) /\ AddTask => tasks' = tasks /\ writes' = writes ]_vars

\* The add handler is enabled with a blank input on a list that has tasks.
C2_BlankInput ==
  /\ Mounted
  /\ text = <<" ">>
  /\ Len(tasks) = 2

Present(id) == \E i \in 1..Len(tasks) : tasks[i].id = id
Changed == {i \in 1..Len(tasks) : tasks'[i] # tasks[i]}

\* C3: toggle of an id that is in the list flips the completed flag of
\* exactly one task and changes nothing else, and a second toggle of the
\* same id gives back the list as it was.
C3_ToggleFlipsOne ==
  [][ \A id \in AllIds :
        Present(id) /\ ToggleTask(id) =>
          /\ Len(tasks') = Len(tasks)
          /\ Cardinality(Changed) = 1
          /\ \A i \in Changed :
               tasks'[i] = [tasks[i] EXCEPT !.completed = ~tasks[i].completed]
          /\ Toggled(tasks', id) = tasks ]_vars

\* What is left of ts when the entries at the positions in gone are taken out.
RECURSIVE Remaining(_, _, _)
Remaining(ts, gone, i) ==
  IF i > Len(ts) THEN <<>>
  ELSE (IF i \in gone THEN <<>> ELSE <<ts[i]>>) \o Remaining(ts, gone, i + 1)

\* C4: delete of an id in the list removes exactly one entry, the one with
\* that id, and keeps the others as they were and in order; delete of an id
\* not in the list removes nothing.
C4_DeleteRemovesOne ==
  [][ \A id \in AllIds :
        DeleteTask(id) =>
          IF Present(id)
            THEN \E i \in 1..Len(tasks) :
                   /\ tasks[i].id = id
                   /\ tasks' = Remaining(tasks, {i}, 1)
            ELSE tasks' = tasks ]_vars

\* C5: the ids of the tasks in the list are pairwise distinct.
C5_UniqueIds ==
  \A i, j \in 1..Len(tasks) : i # j => tasks[i].id # tasks[j].id

\* C6: commit of an open session closes it, gives the task of the session
\* the trimmed draft as title when that is not blank and leaves its title
\* alone when it is, and modifies no other task.
C6_CommitWritesOne ==
  [][ editingId # NoId /\ CommitEditing =>
        /\ editingId' = NoId
        /\ Len(tasks') = Len(tasks)
        /\ Cardinality(Changed) <= 1
        /\ \A i \in 1..Len(tasks) :
             /\ tasks'[i].id = tasks[i].id
             /\ tasks'[i].completed = tasks[i].completed
             /\ IsBlank(editingText) => tasks'[i] = tasks[i]
             /\ i \in Changed =>
                  /\ tasks[i].id = editingId
                  /\ IsTrimOf(tasks'[i].title, editingText) ]_vars

NoBlankTitle(ts) == \A i \in 1..Len(ts) : ~IsBlank(ts[i].title)

\* C7: no task of the list, and no task of a snapshot handed to setItem,
\* has an empty or blank title.
C7_NoBlankTitle ==
  /\ NoBlankTitle(tasks)
  /\ \A w \in 1..Len(writes) : NoBlankTitle(Parse(writes[w]).value)

\* C8: when the startup read gives something that is not a serialized task
\* list, or fails, the list is empty afterwards and the screen is up.
C8_BadLoadGivesEmptyList ==
  [][ \/ LoadReject
      \/ storage.present /\ ~IsArrayText(storage.value) /\ LoadResolve
      => tasks' = <<>> /\ ~crashed' ]_vars

\* C9: once every setItem has landed, the item is the snapshot of the last
\* one issued.  Every setTasks issues one with the new list, so the last
\* snapshot issued is the list as it is.
C9_LastWriteLands ==
  writes = <<>> => storage = Item(Stringify(tasks))

\* The tasks of ts whose completed flag is c, in the order of ts, stated
\* by position.
Positions(ts, c) == {i \in 1..Len(ts) : ts[i].completed = c}

Nth(S, k) == CHOOSE i \in S : Cardinality({j \in S : j < i}) = k - 1

Selection(ts, c) ==
  [k \in 1..Cardinality(Positions(ts, c)) |-> ts[Nth(Positions(ts, c), k)]]

Visible(f) ==
  CASE f = "all" -> tasks
    [] f = "active" -> Selection(tasks, FALSE)
    [] f = "completed" -> Selection(tasks, TRUE)

\* C10: under active the visible tasks are the tasks that are not completed,
\* under completed those that are, in the order of the list, each task of
\* the list in one of the two; under all they are the list.
C10_FilterPartitions ==
  /\ \A f \in Filters : Filtered(f, tasks) = Visible(f)
  /\ filteredTasks = Visible(filter)
  /\ Len(Filtered("active", tasks)) + Len(Filtered("completed", tasks))
       = Len(tasks)

\* The completed filter is on over a list that has a task of each kind.
C10_MixedList ==
  /\ filter = "completed"
  /\ Len(tasks) = 2
  /\ tasks[1].completed = FALSE
  /\ tasks[2].completed = TRUE
  /\ filteredTasks = <<tasks[2]>>

\* C11: the counters are the length of the whole list and the number of
\* its completed tasks, whatever the filter, so 0 <= completed <= total.
C11_Counters ==
  /\ total = Len(tasks)
  /\ completed = Cardinality(Positions(tasks, TRUE))
  /\ 0 <= completed /\ completed <= total

\* The active filter hides the one completed task that the counter counts.
C11_CountedWhileHidden ==
  /\ filter = "active"
  /\ total = 2
  /\ completed = 1
  /\ Len(filteredTasks) = 1

\* C12: a step that changes the list issues a write whose payload is the
\* new list, and once no write is left in flight the stored text parses back
\* to the list in memory.
C12_WriteFollowsChange ==
  [][ /\ tasks' # tasks => writes' = Append(writes, Stringify(tasks'))
      /\ writes' = <<>> /\ storage'.present =>
            Parse(storage'.value).value = tasks' ]_vars

\* C13: startEdit opens a session only for an id that is in the list, with
\* the title the list holds for it, and changes nothing otherwise.
C13_StartEditNeedsTask ==
  [][ \A task \in Range(tasks) \cup StaleTasks :
        StartEditing(task) =>
          IF Present(task.id)
            THEN /\ editingId' = task.id
                 /\ \E i \in 1..Len(tasks) :
                      tasks[i].id = task.id /\ editingText' = tasks[i].title
            ELSE UNCHANGED vars ]_vars

\* C14: there is one session at most; startEdit for task B while a session
\* for another task A is open writes nothing (the list, so A's title, is as
\* before) and leaves B's session, seeded with B's title, as the only one.
C14_StartEditSwitches ==
  [][ \A task \in Range(tasks) :
        editingId # NoId /\ editingId # task.id /\ StartEditing(task) =>
          /\ tasks' = tasks /\ writes' = writes /\ storage' = storage
          /\ editingId' = task.id
          /\ editingText' = task.title ]_vars

\* A session for the older task holds a draft that differs from its title
\* while the newer task is in the list to be double-tapped.
C14_DraftPending ==
  /\ Mounted
  /\ Len(tasks) = 2
  /\ tasks[1].id = 1
  /\ tasks[2] = Task(0, <<"a">>, FALSE)
  /\ editingId = 0
  /\ editingText = <<" ", "b", " ">>

\* C15: updateEditDraft replaces the draft of the open session and changes
\* nothing at all when no session is open.
C15_DraftNeedsSession ==
  [][ \A s \in Strings :
        SetEditingText(s) =>
          IF editingId = NoId
            THEN UNCHANGED vars
            ELSE /\ editingText' = s
                 /\ UNCHANGED << tasks, text, filter, editingId, storage,
                                 loadPc, writes, crashed >> ]_vars

IdsOf(ts) == [i \in 1..Len(ts) |-> ts[i].id]

\* C16: a step of a handler (add, toggle, commitEdit, delete, setFilter and
\* the others; the load, which replaces the list, excepted) either puts one
\* task in front of the list as it was, or leaves the tasks that stay at the
\* places, relative to each other, that they had: two tasks never change
\* places and the newest is first.
C16_OrderKept ==
  [][ loadPc' = loadPc =>
        \/ Len(tasks') = Len(tasks) + 1 /\ Tail(tasks') = tasks
        \/ \E gone \in SUBSET (1..Len(tasks)) :
              IdsOf(tasks') = IdsOf(Remaining(tasks, gone, 1)) ]_vars

\* The newer task has been completed and is still ahead of the older,
\* active one.
C16_CompletedStaysAhead ==
  /\ loadPc = "reading"
  /\ Len(tasks) = 2
  /\ IdsOf(tasks) = <<1, 0>>
  /\ tasks[1].completed /\ ~tasks[2].completed

\* C17: toggle and delete of an id that is not in the list, and commitEdit
\* of a session whose task is not in the list, leave the list as it is and
\* raise no error; the commit closes the session and creates no task.
C17_AbsentTargetKeepsList ==
  [][ /\ \A id \in AllIds :
            ~Present(id) /\ (ToggleTask(id) \/ DeleteTask(id)) =>
              /\ tasks' = tasks /\ ~crashed'
              /\ UNCHANGED << editingId, editingText >>
      /\ editingId # NoId /\ ~Present(editingId) /\ CommitEditing =>
            /\ tasks' = tasks /\ ~crashed'
            /\ editingId' = NoId ]_vars

\* A session with a non-blank draft is open for an id that the non-empty
\* list does not hold.
C17_OrphanSession ==
  /\ Mounted
  /\ tasks # <<>>
  /\ editingId = 0
  /\ ~Present(0)
  /\ editingText = <<" ", "b", " ">>

\* C18: cancelEdit closes the session and setFilter sets the filter; neither
\* changes the list, the writes in flight or the stored value.
C18_OnlyTransient ==
  [][ /\ CancelEditing =>
            /\ editingId' = NoId
            /\ UNCHANGED << tasks, writes, storage, filter, text >>
      /\ \A f \in Filters :
            SetFilter(f) =>
              /\ filter' = f
              /\ UNCHANGED << tasks, writes, storage, editingId,
                              editingText, text >> ]_vars

\* Under the completed filter a session holds a draft that differs from
\* its task's title, with no write in flight.
C18_DraftUnderFilter ==
  /\ Mounted
  /\ filter = "completed"
  /\ tasks = <<Task(0, <<"a">>, TRUE)>>
  /\ editingId = 0
  /\ editingText = <<" ", "b", " ">>
  /\ writes = <<>>
  /\ storage = Item(Stringify(tasks))

\* C19: a task stays in the list, under its id, through every step that is
\* not a delete of that id.
C19_TaskStaysUntilDeleted ==
  [][ \A i \in 1..Len(tasks) :
        \/ \E j \in 1..Len(tasks') : tasks'[j].id = tasks[i].id
        \/ DeleteTask(tasks[i].id) ]_vars

\* C20: on a launch over a saved list that the user leaves alone, the
\* stored value never changes, and once the load is done the list in memory
\* is the stored one.
C20_LaunchKeepsStorage ==
  [][ /\ storage' = storage
      /\ loadPc' = "done" => tasks' = Parse(storage'.value).value ]_vars

====
